---- MODULE Spec2Model ----
(***************************************************************************)
(* Model of the DataVisualizer geometry core (DraggableGraph.tsx, page.tsx *)
(* and csvParser.ts): point transformation between frames, overlap         *)
(* detection, domain classification, axis tick generation and the dump of  *)
(* points between graphs of the registry.                                  *)
(*                                                                         *)
(* JavaScript numbers are modelled as exact rationals <<n, d>> in lowest   *)
(* terms with d > 0, extended with the IEEE-754 specials the code can      *)
(* produce: NaN = <<0,0>>, +Infinity = <<1,0>>, -Infinity = <<-1,0>>.      *)
(* Rotations are multiples of 90 degrees, where Math.cos and Math.sin are  *)
(* taken at their exact values (their floating error, about 1e-16, is      *)
(* below every tolerance the properties mention).  Negative zero is not    *)
(* distinguished from zero: every divisor the code forms is a difference   *)
(* or a measured extent, which is never -0.                                *)
(***************************************************************************)
EXTENDS Integers, Sequences, FiniteSets, TLC

VARIABLES
    pc,          \* position of the harness / last operation performed
    call,        \* arguments of the pure-function call under study
    ret,         \* value returned by that call
    graphs,      \* page.tsx: the graph registry (sequence of Graph records)
    zIndexCounter,   \* page.tsx: useState(100)
    colorIndex,      \* page.tsx: useState(0)
    clock,           \* number of Date.now() readings used as graph ids
    lastDump,    \* the handleDumpPoints call just made, if the last step was one
    selectedGraphId,       \* page.tsx: useState<string | null>(null)
    selectedDataGraphId,   \* page.tsx: useState<string | null>(null)
    showSettings           \* page.tsx: useState(false)

panelVars == <<selectedGraphId, selectedDataGraphId, showSettings>>

registryVars == <<graphs, zIndexCounter, colorIndex, clock, lastDump, panelVars>>

vars == <<pc, call, ret, registryVars>>

undefined == "undefined"

null == "null"

\* an absent numeric field of a point (a pair no number is represented by)
undefinedNumber == <<0, -1>>

(***************************************************************************)
(* Number layer                                                            *)
(***************************************************************************)
Abs(n) == IF n < 0 THEN -n ELSE n

Sgn(n) == IF n < 0 THEN -1 ELSE IF n > 0 THEN 1 ELSE 0

RECURSIVE GCD(_, _)
GCD(a, b) == IF b = 0 THEN Abs(a) ELSE GCD(b, a % b)

NaN == <<0, 0>>
PosInf == <<1, 0>>
NegInf == <<-1, 0>>

\* the rational n/d in lowest terms; d = 0 yields the special of n's sign
Norm(n, d) ==
    IF d = 0 THEN <<Sgn(n), 0>>
    ELSE LET g == GCD(Abs(n), Abs(d))
             s == IF d < 0 THEN -1 ELSE 1
         IN <<(s * n) \div g, (s * d) \div g>>

Num(n) == <<n, 1>>

isNaN(a) == a = NaN
isFinite(a) == a[2] # 0
IsInf(a) == a[2] = 0 /\ a[1] # 0

\* IEEE addition
Add(a, b) ==
    IF isNaN(a) \/ isNaN(b) THEN NaN
    ELSE IF IsInf(a) /\ IsInf(b) THEN (IF a = b THEN a ELSE NaN)
    ELSE IF IsInf(a) THEN a
    ELSE IF IsInf(b) THEN b
    ELSE LET g == GCD(a[2], b[2])
         IN Norm(a[1] * (b[2] \div g) + b[1] * (a[2] \div g), (a[2] \div g) * b[2])

Neg(a) == <<-a[1], a[2]>>

Sub(a, b) == Add(a, Neg(b))

\* IEEE multiplication (Infinity * 0 = NaN)
Mul(a, b) ==
    IF isNaN(a) \/ isNaN(b) THEN NaN
    ELSE IF IsInf(a) \/ IsInf(b) THEN <<Sgn(a[1]) * Sgn(b[1]), 0>>
    ELSE IF a[1] = 0 \/ b[1] = 0 THEN <<0, 1>>
    ELSE LET g1 == GCD(Abs(a[1]), b[2])
             g2 == GCD(Abs(b[1]), a[2])
         IN <<(a[1] \div g1) * (b[1] \div g2), (a[2] \div g2) * (b[2] \div g1)>>

\* IEEE division (x / 0 = +-Infinity, 0 / 0 = NaN, Infinity / Infinity = NaN)
Div(a, b) ==
    IF isNaN(a) \/ isNaN(b) THEN NaN
    ELSE IF IsInf(a) /\ IsInf(b) THEN NaN
    ELSE IF IsInf(a) THEN <<a[1] * (IF b[1] < 0 THEN -1 ELSE 1), 0>>
    ELSE IF IsInf(b) THEN <<0, 1>>
    ELSE IF b[1] = 0 THEN <<Sgn(a[1]), 0>>
    ELSE Mul(a, Norm(b[2], b[1]))

\* a < b as JavaScript compares numbers (false when either is NaN)
Lt(a, b) ==
    IF isNaN(a) \/ isNaN(b) THEN FALSE
    ELSE IF a = b THEN FALSE
    ELSE IF a = NegInf \/ b = PosInf THEN TRUE
    ELSE IF a = PosInf \/ b = NegInf THEN FALSE
    ELSE LET g == GCD(a[2], b[2])
         IN a[1] * (b[2] \div g) < b[1] * (a[2] \div g)

Le(a, b) == ~isNaN(a) /\ ~isNaN(b) /\ ~Lt(b, a)

\* Math.max / Math.min: NaN if either argument is NaN
MathMax(a, b) == IF isNaN(a) \/ isNaN(b) THEN NaN ELSE IF Lt(a, b) THEN b ELSE a

MathMin(a, b) == IF isNaN(a) \/ isNaN(b) THEN NaN ELSE IF Lt(b, a) THEN b ELSE a

\* Math.cos / Math.sin of deg * Math.PI / 180 for multiples of 90 degrees
Cos(deg) == LET r == deg % 360 IN
    IF r = 0 THEN Num(1) ELSE IF r = 180 THEN Num(-1) ELSE Num(0)

Sin(deg) == LET r == deg % 360 IN
    IF r = 90 THEN Num(1) ELSE IF r = 270 THEN Num(-1) ELSE Num(0)

(***************************************************************************)
(* DraggableGraph.tsx: measureChartArea and transformPoints                *)
(***************************************************************************)
\* An element is a record: present is FALSE when no element is passed (null),
\* hasChart tells whether the '.recharts-scatter' group is found in the DOM,
\* and the chart fields hold its rectangle relative to the container.
defaultMeasurements ==
    [chartLeft |-> Num(59), chartTop |-> Num(61), chartWidth |-> Num(0), chartHeight |-> Num(0)]

measureChartArea(graphElement) ==
    IF ~graphElement.present THEN defaultMeasurements
    ELSE IF ~graphElement.hasChart THEN defaultMeasurements
    ELSE [chartLeft |-> graphElement.chartLeft, chartTop |-> graphElement.chartTop,
          chartWidth |-> graphElement.chartWidth, chartHeight |-> graphElement.chartHeight]

chartMarginTop == 20
chartMarginRight == 20
chartMarginBottom == 30
chartMarginLeft == 50
containerPadding == 8
borderWidth == 1
headerHeight == 32

\* sourceMeasurements / targetMeasurements are non-null iff an element is passed
HasMeasurements(graph) == graph.element.present

Measurements(graph) == measureChartArea(graph.element)

totalTopOffset(sourceGraph) ==
    IF HasMeasurements(sourceGraph) THEN Measurements(sourceGraph).chartTop
    ELSE Num(headerHeight + containerPadding + borderWidth + chartMarginTop)

totalLeftOffset(sourceGraph) ==
    IF HasMeasurements(sourceGraph) THEN Measurements(sourceGraph).chartLeft
    ELSE Num(containerPadding + borderWidth + chartMarginLeft)

targetTopOffset(sourceGraph, targetGraph) ==
    IF HasMeasurements(targetGraph) THEN Measurements(targetGraph).chartTop
    ELSE totalTopOffset(sourceGraph)

targetLeftOffset(sourceGraph, targetGraph) ==
    IF HasMeasurements(targetGraph) THEN Measurements(targetGraph).chartLeft
    ELSE totalLeftOffset(sourceGraph)

sourceInnerWidth(sourceGraph) ==
    IF HasMeasurements(sourceGraph) THEN Measurements(sourceGraph).chartWidth
    ELSE Sub(Num(sourceGraph.size.width),
             Add(totalLeftOffset(sourceGraph), Num(chartMarginRight + containerPadding + borderWidth)))

sourceInnerHeight(sourceGraph) ==
    IF HasMeasurements(sourceGraph) THEN Measurements(sourceGraph).chartHeight
    ELSE Sub(Num(sourceGraph.size.height),
             Add(totalTopOffset(sourceGraph), Num(chartMarginBottom + containerPadding + borderWidth)))

targetInnerWidth(sourceGraph, targetGraph) ==
    IF HasMeasurements(targetGraph) THEN Measurements(targetGraph).chartWidth
    ELSE Sub(Num(targetGraph.size.width),
             Add(targetLeftOffset(sourceGraph, targetGraph),
                 Num(chartMarginRight + containerPadding + borderWidth)))

targetInnerHeight(sourceGraph, targetGraph) ==
    IF HasMeasurements(targetGraph) THEN Measurements(targetGraph).chartHeight
    ELSE Sub(Num(targetGraph.size.height),
             Add(targetTopOffset(sourceGraph, targetGraph),
                 Num(chartMarginBottom + containerPadding + borderWidth)))

Half(n) == Norm(n, 2)

\* rotation of the offset (ox, oy) by deg degrees; rotation 0 skips the matrix
RotateX(deg, ox, oy) ==
    IF deg # 0 THEN Sub(Mul(Cos(deg), ox), Mul(Sin(deg), oy)) ELSE ox

\* variant that turns the offset in the opposite sense
RotateY_opposite(deg, ox, oy) ==
    IF deg # 0 THEN Sub(Mul(Cos(deg), oy), Mul(Sin(deg), ox)) ELSE oy

RotateY(deg, ox, oy) ==
    IF deg # 0 THEN Add(Mul(Sin(deg), ox), Mul(Cos(deg), oy)) ELSE oy

\* (rotation || 0) * Math.PI / 180, in units of PI / 180: the rotation is
\* converted as it is
sourceRotationRad(sourceGraph) == sourceGraph.rotation

targetRotationRad(targetGraph) == targetGraph.rotation

\* STEPS 1-4: the absolute screen position of a source point
absolutePosition(point, fromDomains, sourceGraph) ==
    LET relativeX == Div(Sub(point.x, fromDomains.xMin), Sub(fromDomains.xMax, fromDomains.xMin))
        relativeY == Sub(Num(1), Div(Sub(point.y, fromDomains.yMin),
                                     Sub(fromDomains.yMax, fromDomains.yMin)))
        sourceLocalX == Add(totalLeftOffset(sourceGraph), Mul(relativeX, sourceInnerWidth(sourceGraph)))
        sourceLocalY == Add(totalTopOffset(sourceGraph), Mul(relativeY, sourceInnerHeight(sourceGraph)))
        sourceOffsetX == Sub(sourceLocalX, Half(sourceGraph.size.width))
        sourceOffsetY == Sub(sourceLocalY, Half(sourceGraph.size.height))
        rotatedSourceX == RotateX(sourceRotationRad(sourceGraph), sourceOffsetX, sourceOffsetY)
        rotatedSourceY == RotateY(sourceRotationRad(sourceGraph), sourceOffsetX, sourceOffsetY)
        finalSourceLocalX == Add(rotatedSourceX, Half(sourceGraph.size.width))
        finalSourceLocalY == Add(rotatedSourceY, Half(sourceGraph.size.height))
    IN [x |-> Add(Num(sourceGraph.position.x), finalSourceLocalX),
        y |-> Add(Num(sourceGraph.position.y), finalSourceLocalY)]

absoluteX(point, fromDomains, sourceGraph) == absolutePosition(point, fromDomains, sourceGraph).x

absoluteY(point, fromDomains, sourceGraph) == absolutePosition(point, fromDomains, sourceGraph).y

\* STEPS 5-8: the target-domain coordinates, before clamping, of the screen
\* position absolute
newPosition(absolute, toDomains, sourceGraph, targetGraph) ==
    LET targetRelativeX == Sub(absolute.x, Num(targetGraph.position.x))
        targetRelativeY == Sub(absolute.y, Num(targetGraph.position.y))
        targetOffsetX == Sub(targetRelativeX, Half(targetGraph.size.width))
        targetOffsetY == Sub(targetRelativeY, Half(targetGraph.size.height))
        unrotatedTargetX == RotateX(-targetRotationRad(targetGraph), targetOffsetX, targetOffsetY)
        unrotatedTargetY == RotateY(-targetRotationRad(targetGraph), targetOffsetX, targetOffsetY)
        finalTargetLocalX == Add(unrotatedTargetX, Half(targetGraph.size.width))
        finalTargetLocalY == Add(unrotatedTargetY, Half(targetGraph.size.height))
        targetRelativeXNormalized ==
            Div(Sub(finalTargetLocalX, targetLeftOffset(sourceGraph, targetGraph)),
                targetInnerWidth(sourceGraph, targetGraph))
        targetRelativeYNormalized ==
            Div(Sub(finalTargetLocalY, targetTopOffset(sourceGraph, targetGraph)),
                targetInnerHeight(sourceGraph, targetGraph))
    IN [x |-> Add(toDomains.xMin,
                  Mul(targetRelativeXNormalized, Sub(toDomains.xMax, toDomains.xMin))),
        y |-> Sub(toDomains.yMax,
                  Mul(targetRelativeYNormalized, Sub(toDomains.yMax, toDomains.yMin)))]

newX(point, fromDomains, toDomains, sourceGraph, targetGraph) ==
    newPosition(absolutePosition(point, fromDomains, sourceGraph),
                toDomains, sourceGraph, targetGraph).x

newY(point, fromDomains, toDomains, sourceGraph, targetGraph) ==
    newPosition(absolutePosition(point, fromDomains, sourceGraph),
                toDomains, sourceGraph, targetGraph).y

\* Math.max(lo, Math.min(hi, v))
Clamp(lo, hi, v) == MathMax(lo, MathMin(hi, v))

\* the new point: ...point, then the six fields the transform sets
TransformPoint(point, fromDomains, toDomains, sourceGraph, targetGraph) ==
    LET new == newPosition(absolutePosition(point, fromDomains, sourceGraph),
                           toDomains, sourceGraph, targetGraph)
    IN [point EXCEPT
           !.x = Clamp(toDomains.xMin, toDomains.xMax, new.x),
           !.y = Clamp(toDomains.yMin, toDomains.yMax, new.y),
           !._originalX = point.x,
           !._originalY = point.y,
           !._originalColor = sourceGraph.color,
           !.color = sourceGraph.color]

\* variant that discards the points whose position falls outside the target domain
transformPoints_discardOutside(points, fromDomains, toDomains, sourceGraph, targetGraph) ==
    LET Inside(p) ==
            /\ Le(toDomains.xMin, newX(p, fromDomains, toDomains, sourceGraph, targetGraph))
            /\ Le(newX(p, fromDomains, toDomains, sourceGraph, targetGraph), toDomains.xMax)
            /\ Le(toDomains.yMin, newY(p, fromDomains, toDomains, sourceGraph, targetGraph))
            /\ Le(newY(p, fromDomains, toDomains, sourceGraph, targetGraph), toDomains.yMax)
        kept == SelectSeq(points, Inside)
    IN [i \in 1..Len(kept) |->
            TransformPoint(kept[i], fromDomains, toDomains, sourceGraph, targetGraph)]

\* points.map(...): one new point per input point, in order
transformPoints(points, fromDomains, toDomains, sourceGraph, targetGraph) ==
    [i \in 1..Len(points) |->
        TransformPoint(points[i], fromDomains, toDomains, sourceGraph, targetGraph)]

(***************************************************************************)
(* Inputs of the transformPoints harness                                   *)
(***************************************************************************)
MaxPoints == 2

graphColors ==
    <<"#3b82f6", "#ef4444", "#10b981", "#8b5cf6", "#f59e0b",
      "#6366f1", "#ec4899", "#14b8a6", "#f97316", "#a855f7">>

RawPoint(x, y) ==
    [x |-> x, y |-> y, color |-> undefined, _originalX |-> undefinedNumber,
     _originalY |-> undefinedNumber, _originalColor |-> undefined,
     _isDumped |-> FALSE, _sourceId |-> undefined]

Domain(x0, x1, y0, y1) == [xMin |-> Num(x0), xMax |-> Num(x1), yMin |-> Num(y0), yMax |-> Num(y1)]

FirstQuadrantDomain == Domain(0, 5000, 0, 5000)
AllQuadrantDomain == Domain(-2500, 2500, -2500, 2500)

\* domain centre, left-middle, and a point outside both fixed domains
PointChoices == {RawPoint(Num(2500), Num(2500)), RawPoint(Num(0), Num(2500)),
                 RawPoint(Num(6000), Num(-3000))}

\* the sequences of at most n distinct elements of S
RECURSIVE SeqsUpTo(_, _)
SeqsUpTo(S, n) ==
    IF n = 0 THEN {<<>>}
    ELSE SeqsUpTo(S, n - 1) \cup
         UNION {{Append(q, e) : e \in S \ {q[i] : i \in 1..Len(q)}} :
                    q \in {r \in SeqsUpTo(S, n - 1) : Len(r) = n - 1}}

DomainChoices == {FirstQuadrantDomain, AllQuadrantDomain}

\* frame sizes: the size of the spec's scenario, the initial size of a loaded
\* graph, and the size whose estimated plot rectangle is 0 x 0 (88 = 59 + 29,
\* 100 = 61 + 39)
ScenarioSize == [width |-> 500, height |-> 400]
InitialSize == [width |-> 600, height |-> 650]
ZeroExtentSize == [width |-> 88, height |-> 100]

\* a rendered chart as getBoundingClientRect measures it, and an
\* element in which no '.recharts-scatter' group is found
RenderedElement ==
    [present |-> TRUE, hasChart |-> TRUE, chartLeft |-> Num(60), chartTop |-> Num(62),
     chartWidth |-> Num(410), chartHeight |-> Num(298)]

UnrenderedElement ==
    [present |-> TRUE, hasChart |-> FALSE, chartLeft |-> Num(0), chartTop |-> Num(0),
     chartWidth |-> Num(0), chartHeight |-> Num(0)]

NoElement ==
    [present |-> FALSE, hasChart |-> FALSE, chartLeft |-> Num(0), chartTop |-> Num(0),
     chartWidth |-> Num(0), chartHeight |-> Num(0)]

\* <<source element, target element>>: none, the same element for both (as
\* the caller in DraggableGraph passes them), or an element on one side only
ElementPairs == {<<NoElement, NoElement>>, <<RenderedElement, RenderedElement>>,
                 <<UnrenderedElement, UnrenderedElement>>,
                 <<RenderedElement, NoElement>>, <<NoElement, RenderedElement>>}

SourceFrames(e) ==
    {[position |-> p, size |-> s, rotation |-> r, color |-> graphColors[1], element |-> e] :
        p \in {[x |-> 100, y |-> 100], [x |-> 130, y |-> 70]},
        s \in {ScenarioSize, ZeroExtentSize}, r \in {0, 90, 270}}

TargetFrames(e) ==
    {[position |-> p, size |-> s, rotation |-> r, element |-> e] :
        p \in {[x |-> 100, y |-> 100]},
        s \in {ScenarioSize, InitialSize, ZeroExtentSize}, r \in {0, 90}}

NoDump ==
    [from |-> undefined, to |-> undefined, confirmed |-> FALSE, element |-> NoElement,
     input |-> <<>>, points |-> <<>>]

\* page.tsx: the state of Home after construction
InitRegistryVars ==
    /\ graphs = <<>>
    /\ zIndexCounter = 100
    /\ colorIndex = 0
    /\ clock = 0
    /\ lastDump = NoDump
    /\ selectedGraphId = null
    /\ selectedDataGraphId = null
    /\ showSettings = FALSE

InitTransform ==
    /\ pc = "transform_ready"
    /\ \E ep \in ElementPairs, ps \in SeqsUpTo(PointChoices, MaxPoints),
          fd \in DomainChoices, td \in DomainChoices :
          \E sg \in SourceFrames(ep[1]), tg \in TargetFrames(ep[2]) :
             call = [points |-> ps, fromDomains |-> fd, toDomains |-> td,
                     sourceGraph |-> sg, targetGraph |-> tg]
    /\ ret = <<>>
    /\ InitRegistryVars

\* the call transformPoints(points, fromDomains, toDomains, sourceGraph, targetGraph)
CallTransformPoints ==
    /\ pc = "transform_ready"
    /\ ret' = transformPoints(call.points, call.fromDomains, call.toDomains,
                              call.sourceGraph, call.targetGraph)
    /\ pc' = "transform_done"
    /\ UNCHANGED <<call, registryVars>>

NextTransform == CallTransformPoints

SpecTransform == InitTransform /\ [][NextTransform]_vars

(***************************************************************************)
(* Properties of transformPoints                                           *)
(***************************************************************************)
InDomain(d, p) == Le(d.xMin, p.x) /\ Le(p.x, d.xMax) /\ Le(d.yMin, p.y) /\ Le(p.y, d.yMax)

\* C2: every point returned by transformPoints has x within
\* [targetDomain.xMin, targetDomain.xMax] and y within
\* [targetDomain.yMin, targetDomain.yMax], for any point, frames and domain.
C2_OutputWithinTargetDomain ==
    pc = "transform_done" =>
        \A i \in 1..Len(ret) : InDomain(call.toDomains, ret[i])

\* C9: transformPoints never uses a plot-rectangle width or height below 1
\* (an extent <= 0 is treated as 1), and the returned points are within the
\* target domain.
C9_ExtentsAtLeastOne ==
    pc = "transform_done" =>
        \A i \in 1..Len(ret) :
            /\ Le(Num(1), sourceInnerWidth(call.sourceGraph))
            /\ Le(Num(1), sourceInnerHeight(call.sourceGraph))
            /\ Le(Num(1), targetInnerWidth(call.sourceGraph, call.targetGraph))
            /\ Le(Num(1), targetInnerHeight(call.sourceGraph, call.targetGraph))
            /\ Le(call.toDomains.xMin, ret[i].x) /\ Le(ret[i].x, call.toDomains.xMax)
            /\ Le(call.toDomains.yMin, ret[i].y) /\ Le(ret[i].y, call.toDomains.yMax)

\* C10: when the measured chart area of a frame is absent or has zero or
\* negative width or height, the plot rectangle transformPoints uses for that
\* frame is the estimate from the frame's size and the margin/chrome constants.
C10_FallbackToEstimate ==
    LET EstLeft == Num(containerPadding + borderWidth + chartMarginLeft)
        EstTop == Num(headerHeight + containerPadding + borderWidth + chartMarginTop)
        EstWidth(g) == Num(g.size.width - (containerPadding + borderWidth + chartMarginLeft)
                           - (chartMarginRight + containerPadding + borderWidth))
        EstHeight(g) == Num(g.size.height
                            - (headerHeight + containerPadding + borderWidth + chartMarginTop)
                            - (chartMarginBottom + containerPadding + borderWidth))
        Invalid(g) == \/ ~g.element.present
                      \/ Le(measureChartArea(g.element).chartWidth, Num(0))
                      \/ Le(measureChartArea(g.element).chartHeight, Num(0))
        sg == call.sourceGraph
        tg == call.targetGraph
    IN (pc = "transform_done" /\ Len(call.points) > 0) =>
        /\ Invalid(sg) =>
              /\ totalLeftOffset(sg) = EstLeft /\ totalTopOffset(sg) = EstTop
              /\ sourceInnerWidth(sg) = EstWidth(sg)
              /\ sourceInnerHeight(sg) = EstHeight(sg)
        /\ Invalid(tg) =>
              /\ targetLeftOffset(sg, tg) = EstLeft /\ targetTopOffset(sg, tg) = EstTop
              /\ targetInnerWidth(sg, tg) = EstWidth(tg)
              /\ targetInnerHeight(sg, tg) = EstHeight(tg)

\* C1: for a source point inside the source domain whose result was not
\* clamped, the returned point placed in the target frame by the forward
\* mapping (normalise against the domain, scale into the frame's plot
\* rectangle with y flipped, rotate about the frame centre, add the frame
\* position) lands on the canvas position of the source point placed in the
\* source frame by the same mapping.  The plot rectangle of a frame is its
\* measured chart area when one is supplied and valid, else the estimate from
\* its size, with extents of at least 1.
C1_VisualPositionPreserved ==
    LET Valid(g) == /\ g.element.present
                    /\ Lt(Num(0), measureChartArea(g.element).chartWidth)
                    /\ Lt(Num(0), measureChartArea(g.element).chartHeight)
        RectLeft(g) == IF Valid(g) THEN measureChartArea(g.element).chartLeft
                       ELSE Num(containerPadding + borderWidth + chartMarginLeft)
        RectTop(g) == IF Valid(g) THEN measureChartArea(g.element).chartTop
                      ELSE Num(headerHeight + containerPadding + borderWidth + chartMarginTop)
        RectWidth(g) ==
            IF Valid(g) THEN measureChartArea(g.element).chartWidth
            ELSE MathMax(Num(1), Num(g.size.width - (containerPadding + borderWidth + chartMarginLeft)
                                     - (chartMarginRight + containerPadding + borderWidth)))
        RectHeight(g) ==
            IF Valid(g) THEN measureChartArea(g.element).chartHeight
            ELSE MathMax(Num(1), Num(g.size.height
                                     - (headerHeight + containerPadding + borderWidth + chartMarginTop)
                                     - (chartMarginBottom + containerPadding + borderWidth)))
        LocalX(p, d, g) ==
            Add(RectLeft(g), Mul(Div(Sub(p.x, d.xMin), Sub(d.xMax, d.xMin)), RectWidth(g)))
        LocalY(p, d, g) ==
            Add(RectTop(g), Mul(Sub(Num(1), Div(Sub(p.y, d.yMin), Sub(d.yMax, d.yMin))),
                                RectHeight(g)))
        OffX(p, d, g) == Sub(LocalX(p, d, g), Half(g.size.width))
        OffY(p, d, g) == Sub(LocalY(p, d, g), Half(g.size.height))
        CanvasX(p, d, g) ==
            Add(Num(g.position.x),
                Add(Half(g.size.width),
                    Sub(Mul(Cos(g.rotation), OffX(p, d, g)), Mul(Sin(g.rotation), OffY(p, d, g)))))
        CanvasY(p, d, g) ==
            Add(Num(g.position.y),
                Add(Half(g.size.height),
                    Add(Mul(Sin(g.rotation), OffX(p, d, g)), Mul(Cos(g.rotation), OffY(p, d, g)))))
        Unclamped(i) ==
            /\ ret[i].x = newX(call.points[i], call.fromDomains, call.toDomains,
                               call.sourceGraph, call.targetGraph)
            /\ ret[i].y = newY(call.points[i], call.fromDomains, call.toDomains,
                               call.sourceGraph, call.targetGraph)
    IN pc = "transform_done" =>
        \A i \in 1..Len(ret) :
            (InDomain(call.fromDomains, call.points[i]) /\ Unclamped(i)) =>
                /\ CanvasX(ret[i], call.toDomains, call.targetGraph)
                     = CanvasX(call.points[i], call.fromDomains, call.sourceGraph)
                /\ CanvasY(ret[i], call.toDomains, call.targetGraph)
                     = CanvasY(call.points[i], call.fromDomains, call.sourceGraph)

\* C3: with identical source and target frames (same position, size, domain)
\* and rotation 0 on both, every returned point has the x and y of its input.
C3_RotationZeroIdentity ==
    (/\ pc = "transform_done"
     /\ call.sourceGraph.position = call.targetGraph.position
     /\ call.sourceGraph.size = call.targetGraph.size
     /\ call.sourceGraph.element = call.targetGraph.element
     /\ call.fromDomains = call.toDomains
     /\ call.sourceGraph.rotation = 0 /\ call.targetGraph.rotation = 0) =>
        \A i \in 1..Len(ret) : ret[i].x = call.points[i].x /\ ret[i].y = call.points[i].y

\* C7: transformPoints leaves its input points as they were and returns one
\* new point per input point, in the same order; a point whose transformed
\* position falls outside the target domain is kept (clamped), not discarded.
C7_OnePointPerInputInOrder ==
    pc = "transform_done" =>
        /\ Len(ret) = Len(call.points)
        /\ \A i \in 1..Len(call.points) :
              /\ call.points[i] \in PointChoices
              /\ ret[i]._originalX = call.points[i].x
              /\ ret[i]._originalY = call.points[i].y

\* a call of two points in which a returned point was clamped
C7_Witness ==
    /\ pc = "transform_done"
    /\ Len(ret) = 2
    /\ \E i \in 1..Len(ret) :
          /\ isFinite(ret[i].x)
          /\ ret[i].x # newX(call.points[i], call.fromDomains, call.toDomains,
                             call.sourceGraph, call.targetGraph)

(***************************************************************************)
(* DraggableGraph.tsx: doRectanglesOverlap and detectOverlaps              *)
(***************************************************************************)
MaxFrames == 2

\* variant that tests the horizontal extent from one side only
doRectanglesOverlap_oneSided(rect1, rect2) ==
    /\ rect1.x < rect2.x + rect2.width
    /\ rect1.y < rect2.y + rect2.height
    /\ rect1.y + rect1.height > rect2.y

doRectanglesOverlap(rect1, rect2) ==
    /\ rect1.x < rect2.x + rect2.width
    /\ rect1.x + rect1.width > rect2.x
    /\ rect1.y < rect2.y + rect2.height
    /\ rect1.y + rect1.height > rect2.y

\* the zIndex prop page.tsx passes: graph.zIndex || 100
zIndexProp(graph) == IF graph.zIndex = 0 THEN 100 ELSE graph.zIndex

GraphRect(graph) ==
    [x |-> graph.position.x, y |-> graph.position.y,
     width |-> graph.size.width, height |-> graph.size.height]

\* variant that also accepts candidates of equal zIndex
detectOverlaps_equalZ(allGraphs, id, position, size, zIndex) ==
    IF Len(allGraphs) <= 1 THEN <<>>
    ELSE LET currentRect == [x |-> position.x, y |-> position.y,
                             width |-> size.width, height |-> size.height]
             keep(graph) == /\ graph.id # id
                            /\ graph.zIndex <= zIndex
                            /\ doRectanglesOverlap(currentRect, GraphRect(graph))
         IN SelectSeq(allGraphs, keep)

\* the overlappingGraphs a graph computes from its props and allGraphs
detectOverlaps(allGraphs, id, position, size, zIndex) ==
    IF Len(allGraphs) <= 1 THEN <<>>
    ELSE LET currentRect == [x |-> position.x, y |-> position.y,
                             width |-> size.width, height |-> size.height]
             keep(graph) == /\ graph.id # id
                            /\ graph.zIndex < zIndex
                            /\ doRectanglesOverlap(currentRect, GraphRect(graph))
         IN SelectSeq(allGraphs, keep)

GraphIds == <<"g1", "g2", "g3", "g4">>

\* frames for overlap detection: positions apart, overlapping and edge to edge
OverlapFrames ==
    {[position |-> p, size |-> s, zIndex |-> z] :
        p \in {[x |-> 100, y |-> 100], [x |-> 130, y |-> 130], [x |-> 700, y |-> 100]},
        s \in {InitialSize, [width |-> 250, height |-> 200]},
        z \in {100, 101, 102}}

WithIds(fs) == [i \in 1..Len(fs) |->
                   [id |-> GraphIds[i], position |-> fs[i].position, size |-> fs[i].size,
                    zIndex |-> fs[i].zIndex]]

InitOverlap ==
    /\ pc = "overlap_ready"
    /\ \E n \in 1..MaxFrames :
          \E fs \in [1..n -> OverlapFrames], q \in 1..n :
             call = [allGraphs |-> WithIds(fs), query |-> q]
    /\ ret = <<>>
    /\ InitRegistryVars

\* the effect that runs detectOverlaps for the graph rendered from allGraphs[query]
CallDetectOverlaps ==
    /\ pc = "overlap_ready"
    /\ LET g == call.allGraphs[call.query]
       IN ret' = detectOverlaps(call.allGraphs, g.id, g.position, g.size, zIndexProp(g))
    /\ pc' = "overlap_done"
    /\ UNCHANGED <<call, registryVars>>

NextOverlap == CallDetectOverlaps

SpecOverlap == InitOverlap /\ [][NextOverlap]_vars

\* C4: detectOverlaps returns exactly the candidates that are not the query
\* frame, whose unrotated rectangle shares area with the query's, and whose
\* zOrder is strictly less than the query's.
C4_ExactlyLowerOverlapping ==
    LET q == call.allGraphs[call.query]
        Max(a, b) == IF a > b THEN a ELSE b
        Min(a, b) == IF a < b THEN a ELSE b
        SharesArea(a, b) ==
            /\ Max(a.position.x, b.position.x)
                 < Min(a.position.x + a.size.width, b.position.x + b.size.width)
            /\ Max(a.position.y, b.position.y)
                 < Min(a.position.y + a.size.height, b.position.y + b.size.height)
        Expected == {i \in 1..Len(call.allGraphs) :
                        /\ i # call.query
                        /\ SharesArea(q, call.allGraphs[i])
                        /\ call.allGraphs[i].zIndex < q.zIndex}
    IN pc = "overlap_done" =>
        /\ {ret[k] : k \in 1..Len(ret)} = {call.allGraphs[i] : i \in Expected}
        /\ Len(ret) = Cardinality(Expected)

\* a query with an overlapping lower frame returned
C4_Witness ==
    /\ pc = "overlap_done"
    /\ Len(ret) = 1
    /\ Len(call.allGraphs) = 2
    /\ ret[1].zIndex < call.allGraphs[call.query].zIndex

(***************************************************************************)
(* csvParser.ts: parseCSVData; DraggableGraph.tsx: processedData,          *)
(* calculatedDomains and sanitizedDomains                                  *)
(***************************************************************************)
MaxRows == 2

\* Math.min(...values) / Math.max(...values): Infinity / -Infinity when empty
RECURSIVE MinOf(_)
MinOf(values) ==
    IF values = <<>> THEN PosInf ELSE MathMin(Head(values), MinOf(Tail(values)))

RECURSIVE MaxOf(_)
MaxOf(values) ==
    IF values = <<>> THEN NegInf ELSE MathMax(Head(values), MaxOf(Tail(values)))

Xs(points) == [i \in 1..Len(points) |-> points[i].x]
Ys(points) == [i \in 1..Len(points) |-> points[i].y]

\* A row is the pair of numbers parseFloat yields for its first two columns
\* (NaN for a cell that does not parse).  The result is the filtered points
\* together with the metadata the parser attaches to result[0]; hasMetadata
\* is FALSE when there is no result[0] to attach it to.
parseCSVData(rows) ==
    LET notNaN(point) == ~isNaN(point.x) /\ ~isNaN(point.y)
        result == SelectSeq([i \in 1..Len(rows) |-> RawPoint(rows[i][1], rows[i][2])], notNaN)
        xMin == MinOf(Xs(result))
        xMax == MaxOf(Xs(result))
        yMin == MinOf(Ys(result))
        yMax == MaxOf(Ys(result))
        shouldUseFourQuadrants == Lt(xMin, Num(0)) \/ Lt(yMin, Num(0))
        domains == IF shouldUseFourQuadrants
                   THEN [xMin |-> xMin, xMax |-> xMax, yMin |-> yMin, yMax |-> yMax]
                   ELSE [xMin |-> Num(0), xMax |-> xMax, yMin |-> Num(0), yMax |-> yMax]
    IN [points |-> result,
        hasMetadata |-> Len(result) > 0,
        quadrantMode |-> IF shouldUseFourQuadrants THEN "all" ELSE "first",
        domains |-> domains]

\* the validity filter of processedData, calculatedDomains and handleFileProcessed
IsValidPoint(point) ==
    ~isNaN(point.x) /\ ~isNaN(point.y) /\ isFinite(point.x) /\ isFinite(point.y)

processedData(data) == SelectSeq(data, IsValidPoint)

\* variant that fits the x range to the data instead of using the fixed range
calculatedDomains_fitted(data) ==
    IF processedData(data) = <<>> THEN FirstQuadrantDomain
    ELSE LET validData == processedData(data)
             hasNegativeValues ==
                 Lt(MinOf(Xs(validData)), Num(0)) \/ Lt(MinOf(Ys(validData)), Num(0))
         IN IF hasNegativeValues THEN AllQuadrantDomain
            ELSE [FirstQuadrantDomain EXCEPT !.xMax = MaxOf(Xs(validData))]

\* variant without the two empty-collection returns: the range of the valid
\* points is used whether or not there are any
calculatedDomains_noFallback(data) ==
    LET validData == processedData(data)
        hasNegativeValues ==
            Lt(MinOf(Xs(validData)), Num(0)) \/ Lt(MinOf(Ys(validData)), Num(0))
    IN IF hasNegativeValues THEN AllQuadrantDomain
       ELSE [xMin |-> Num(0), xMax |-> MaxOf(Xs(validData)),
             yMin |-> Num(0), yMax |-> MaxOf(Ys(validData))]

calculatedDomains(data) ==
    IF data = <<>> THEN FirstQuadrantDomain
    ELSE LET validData == processedData(data)
             dataMinX == MinOf(Xs(validData))
             dataMinY == MinOf(Ys(validData))
             hasNegativeValues == Lt(dataMinX, Num(0)) \/ Lt(dataMinY, Num(0))
         IN IF validData = <<>> THEN FirstQuadrantDomain
            ELSE IF hasNegativeValues THEN AllQuadrantDomain
            ELSE FirstQuadrantDomain

\* the scaledDomains a graph draws its axes with
sanitizedDomains(data) ==
    LET c == calculatedDomains(data)
    IN [xMin |-> c.xMin, xMax |-> MathMax(c.xMax, Add(c.xMin, Num(1))),
        yMin |-> c.yMin, yMax |-> MathMax(c.yMax, Add(c.yMin, Num(1)))]

\* cell values: an unparsable cell, a negative, zero, inside and beyond 5000,
\* and the cell "Infinity", which parseFloat reads as Infinity
CellChoices == {NaN, Num(-1000), Num(0), Num(2500), Num(6000), PosInf}

NoDomain == [xMin |-> NaN, xMax |-> NaN, yMin |-> NaN, yMax |-> NaN]

InitClassify ==
    /\ pc = "classify_ready"
    /\ \E n \in 1..MaxRows :
          \E rows \in [1..n -> CellChoices \X CellChoices] :
             call = [rows |-> rows]
    /\ ret = [parsed |-> parseCSVData(<<>>), graphDomains |-> NoDomain]
    /\ InitRegistryVars

\* data-load time: FileUploader calls parseCSVData on the rows of the file
CallParseCSVData ==
    /\ pc = "classify_ready"
    /\ ret' = [ret EXCEPT !.parsed = parseCSVData(call.rows)]
    /\ pc' = "classify_parsed"
    /\ UNCHANGED <<call, registryVars>>

\* the graph rendered from the parsed data computes its own domains
CallCalculatedDomains ==
    /\ pc = "classify_parsed"
    /\ ret' = [ret EXCEPT !.graphDomains = sanitizedDomains(ret.parsed.points)]
    /\ pc' = "classify_done"
    /\ UNCHANGED <<call, registryVars>>

NextClassify == CallParseCSVData \/ CallCalculatedDomains

SpecClassify == InitClassify /\ [][NextClassify]_vars

\* C5: for a non-empty set of valid points, both the classification at
\* data-load time (parseCSVData) and the one the graph computes return mode
\* first with domain {0,5000,0,5000} when every x and y is >= 0, and mode all
\* with domain {-2500,2500,-2500,2500} when any x or y is < 0.
C5_FixedDomainClassification ==
    LET pts == ret.parsed.points
        AnyNegative == \E i \in 1..Len(pts) : Lt(pts[i].x, Num(0)) \/ Lt(pts[i].y, Num(0))
        ExpectedMode == IF AnyNegative THEN "all" ELSE "first"
        ExpectedDomain == IF AnyNegative THEN Domain(-2500, 2500, -2500, 2500)
                          ELSE Domain(0, 5000, 0, 5000)
    IN (pc = "classify_done" /\ Len(pts) > 0 /\ processedData(pts) = pts) =>
        /\ ret.parsed.quadrantMode = ExpectedMode
        /\ ret.parsed.domains = ExpectedDomain
        /\ ret.graphDomains = ExpectedDomain

(***************************************************************************)
(* DraggableGraph.tsx: the ticks of the X and Y axes                       *)
(***************************************************************************)
MaxIntervals == 6

\* value.toFixed(10) read back by parseFloat: the decimal of ten fraction
\* digits nearest to a finite value, as <<sign, integer part, digits 1-5,
\* digits 6-10>> (the two groups of five digits keep every intermediate
\* product within range)
toFixed10(value) ==
    LET a == Abs(value[1])
        d == value[2]
        int == a \div d
        r1 == a % d
        hi == (r1 * 100000) \div d
        r2 == (r1 * 100000) % d
        lo == (r2 * 100000) \div d
        r3 == (r2 * 100000) % d
        up == 2 * r3 >= d
        lo2 == IF up THEN lo + 1 ELSE lo
        hi2 == IF lo2 = 100000 THEN hi + 1 ELSE hi
        int2 == IF hi2 = 100000 THEN int + 1 ELSE int
        isZero == int2 = 0 /\ hi2 % 100000 = 0 /\ lo2 % 100000 = 0
    IN <<IF isZero THEN 0 ELSE Sgn(value[1]), int2, hi2 % 100000, lo2 % 100000>>

\* a < b on such decimals
DecLt(a, b) ==
    LET MagLt(u, v) == \/ u[2] < v[2]
                       \/ u[2] = v[2] /\ u[3] < v[3]
                       \/ u[2] = v[2] /\ u[3] = v[3] /\ u[4] < v[4]
    IN IF a[1] # b[1] THEN a[1] < b[1]
       ELSE IF a[1] = 1 THEN MagLt(a, b)
       ELSE IF a[1] = -1 THEN MagLt(b, a)
       ELSE FALSE

\* variant with one tick fewer: the loop stops before intervalCount
ticks_shortLoop(min, max, hasAxisIntervals, axisInterval) ==
    LET safeMax == MathMax(max, Add(min, Num(1)))
        intervalCount == IF hasAxisIntervals /\ axisInterval # 0 THEN axisInterval ELSE 5
        exactStepSize == Div(Sub(safeMax, min), Num(intervalCount))
    IN IF intervalCount <= 1 THEN <<toFixed10(min), toFixed10(safeMax)>>
       ELSE [k \in 1..intervalCount |->
                toFixed10(Add(min, Mul(exactStepSize, Num(k - 1))))]

\* the ticks of one axis from scaledDomains (min, max) and axisIntervals;
\* the two ticks of the short form are returned as they are, written here as
\* the decimals equal to them
ticks(min, max, hasAxisIntervals, axisInterval) ==
    LET safeMax == MathMax(max, Add(min, Num(1)))
        intervalCount == IF hasAxisIntervals /\ axisInterval # 0 THEN axisInterval ELSE 5
        exactStepSize == Div(Sub(safeMax, min), Num(intervalCount))
    IN IF intervalCount <= 1 THEN <<toFixed10(min), toFixed10(safeMax)>>
       ELSE [k \in 1..(intervalCount + 1) |->
                toFixed10(Add(min, Mul(exactStepSize, Num(k - 1))))]

\* <<min, max>> of an axis: the two fixed domains, a one-unit range, an empty
\* range and an inverted range
RangeChoices == {<<0, 5000>>, <<-2500, 2500>>, <<0, 1>>, <<5, 5>>, <<5, 0>>}

IntervalChoices == -1..MaxIntervals

InitTicks ==
    /\ pc = "ticks_ready"
    /\ \E xr \in RangeChoices, yr \in {<<0, 5000>>, <<-2500, 2500>>},
          has \in BOOLEAN, xi \in IntervalChoices, yi \in {1, 5} :
          /\ has \/ (xi = 5 /\ yi = 5)
          /\ call = [scaledDomains |-> Domain(xr[1], xr[2], yr[1], yr[2]),
                     hasAxisIntervals |-> has,
                     axisIntervals |-> [x |-> xi, y |-> yi]]
    /\ ret = [xTicks |-> <<>>, yTicks |-> <<>>]
    /\ InitRegistryVars

\* a render of the chart computes the ticks of both axes
RenderAxes ==
    /\ pc = "ticks_ready"
    /\ ret' = [xTicks |-> ticks(call.scaledDomains.xMin, call.scaledDomains.xMax,
                                call.hasAxisIntervals, call.axisIntervals.x),
               yTicks |-> ticks(call.scaledDomains.yMin, call.scaledDomains.yMax,
                                call.hasAxisIntervals, call.axisIntervals.y)]
    /\ pc' = "ticks_done"
    /\ UNCHANGED <<call, registryVars>>

NextTicks == RenderAxes

SpecTicks == InitTicks /\ [][NextTicks]_vars

MaxLoads == 2
MaxData == 3

\* the files a user loads: rows of <<x, y>> cells
FileChoices ==
    {<<<<Num(2500), Num(2500)>>>>,
     <<<<NaN, Num(0)>>, <<Num(0), Num(2500)>>, <<Num(6000), Num(-3000)>>>>}

IndexOf(id) == CHOOSE i \in 1..Len(graphs) : graphs[i].id = id

HasGraph(id) == \E i \in 1..Len(graphs) : graphs[i].id = id

\* getNextGraphPosition
getNextGraphPosition(existingGraphs) ==
    [x |-> 100 + Len(existingGraphs) * 30, y |-> 100 + Len(existingGraphs) * 30]

\* handleFileProcessed(parseCSVData(rows), fileName)
HandleFileProcessed(rows) ==
    LET parsedData == parseCSVData(rows).points
        validData == SelectSeq(parsedData, IsValidPoint)
        \* validData[0] carries the parser's metadata iff it is result[0]
        firstHasMetadata == validData[1] = parsedData[1]
        newGraph ==
            [id |-> GraphIds[clock + 1],
             data |-> validData,
             position |-> getNextGraphPosition(graphs),
             size |-> InitialSize,
             rotation |-> 0,
             color |-> graphColors[colorIndex + 1],
             quadrantMode |-> IF firstHasMetadata THEN parseCSVData(rows).quadrantMode
                              ELSE "first",
             domains |-> IF firstHasMetadata THEN parseCSVData(rows).domains
                         ELSE FirstQuadrantDomain,
             zIndex |-> zIndexCounter]
    IN /\ clock < MaxLoads
       /\ parsedData # <<>>
       /\ validData # <<>>
       /\ zIndexCounter' = zIndexCounter + 1
       /\ colorIndex' = (colorIndex + 1) % Len(graphColors)
       /\ clock' = clock + 1
       /\ graphs' = Append(graphs, newGraph)
       /\ pc' = "handleFileProcessed"
       /\ lastDump' = NoDump
       /\ UNCHANGED <<call, ret, panelVars>>

\* handleGraphClick(id): the clicked graph goes above the highest zIndex;
\* clicks are followed while the highest zIndex is below zIndexCounter
HandleGraphClick(id) ==
    LET maxZIndex == CHOOSE m \in {graphs[i].zIndex : i \in 1..Len(graphs)} \cup {100} :
                        \A i \in 1..Len(graphs) : graphs[i].zIndex <= m /\ m >= 100
    IN /\ HasGraph(id)
       /\ maxZIndex < zIndexCounter
       /\ graphs' = [i \in 1..Len(graphs) |->
                        IF graphs[i].id = id THEN [graphs[i] EXCEPT !.zIndex = maxZIndex + 1]
                        ELSE graphs[i]]
       /\ pc' = "handleGraphClick"
       /\ lastDump' = NoDump
       /\ UNCHANGED <<call, ret, zIndexCounter, colorIndex, clock, panelVars>>

\* variant that leaves the data panel of the removed graph selected
HandleRemoveGraph_keepDataPanel(id) ==
    LET keep(graph) == graph.id # id
    IN /\ HasGraph(id)
       /\ selectedGraphId' = IF selectedGraphId = id THEN null ELSE selectedGraphId
       /\ showSettings' = IF selectedGraphId = id THEN FALSE ELSE showSettings
       /\ graphs' = SelectSeq(graphs, keep)
       /\ pc' = "handleRemoveGraph"
       /\ lastDump' = NoDump
       /\ UNCHANGED <<call, ret, zIndexCounter, colorIndex, clock, selectedDataGraphId>>

\* handleRemoveGraph(graphId)
HandleRemoveGraph(id) ==
    LET keep(graph) == graph.id # id
    IN /\ HasGraph(id)
       /\ selectedGraphId' = IF selectedGraphId = id THEN null ELSE selectedGraphId
       /\ showSettings' = IF selectedGraphId = id THEN FALSE ELSE showSettings
       /\ selectedDataGraphId' = IF selectedDataGraphId = id THEN null
                                 ELSE selectedDataGraphId
       /\ graphs' = SelectSeq(graphs, keep)
       /\ pc' = "handleRemoveGraph"
       /\ lastDump' = NoDump
       /\ UNCHANGED <<call, ret, zIndexCounter, colorIndex, clock>>

\* variant that does not record the source graph on the dumped points
pointsWithMetadata_noSourceId(transformedPoints, fromGraphId, sourceGraph) ==
    [i \in 1..Len(transformedPoints) |->
        LET point == transformedPoints[i]
        IN [point EXCEPT
               !._originalColor = IF point._originalColor # undefined
                                  THEN point._originalColor ELSE sourceGraph.color,
               !._isDumped = TRUE]]

\* page.tsx handleDumpPoints: the metadata added to each transformed point
pointsWithMetadata(transformedPoints, fromGraphId, sourceGraph) ==
    [i \in 1..Len(transformedPoints) |->
        LET point == transformedPoints[i]
        IN [point EXCEPT
               !._sourceId = fromGraphId,
               !._originalColor = IF point._originalColor # undefined
                                  THEN point._originalColor ELSE sourceGraph.color,
               !._isDumped = TRUE]]

\* DraggableGraph.tsx handleDumpPoints: the domains of a dump; the source's
\* are its scaledDomains state, the target's come from the registry entry
sourceDomains(sourceGraph) == sanitizedDomains(sourceGraph.data)

targetDomains(targetGraph) == targetGraph.domains

\* DraggableGraph.tsx handleDumpPoints: the transformPoints call of a dump
\* from the graph sourceGraph to targetGraph; both frames get the source
\* graph's container element
DumpTransform(sourceGraph, targetGraph, element) ==
    transformPoints(processedData(sourceGraph.data),
                    sourceDomains(sourceGraph),
                    targetDomains(targetGraph),
                    [position |-> sourceGraph.position, size |-> sourceGraph.size,
                     color |-> sourceGraph.color, rotation |-> sourceGraph.rotation,
                     element |-> element],
                    [position |-> targetGraph.position, size |-> targetGraph.size,
                     rotation |-> targetGraph.rotation, element |-> element])

\* the overlappingGraphs offered in the dump dropdown of graph g
OverlappingGraphs(g) == detectOverlaps(graphs, g.id, g.position, g.size, zIndexProp(g))

\* variant that moves the points: the source graph is left empty
HandleDumpPoints_moved(id, toGraphId, element) ==
    LET sourceGraph == graphs[IndexOf(id)]
        targetGraph == graphs[IndexOf(toGraphId)]
        transformedPoints == DumpTransform(sourceGraph, targetGraph, element)
    IN /\ HasGraph(id) /\ HasGraph(toGraphId)
       /\ \E k \in 1..Len(OverlappingGraphs(sourceGraph)) :
             OverlappingGraphs(sourceGraph)[k].id = toGraphId
       /\ Len(targetGraph.data) + Len(sourceGraph.data) <= MaxData
       /\ \E confirmed \in BOOLEAN :
             /\ graphs' = IF confirmed
                          THEN [i \in 1..Len(graphs) |->
                                  IF graphs[i].id = toGraphId
                                  THEN [graphs[i] EXCEPT !.data =
                                           graphs[i].data \o
                                           pointsWithMetadata(transformedPoints, id, sourceGraph)]
                                  ELSE IF graphs[i].id = id
                                  THEN [graphs[i] EXCEPT !.data = <<>>]
                                  ELSE graphs[i]]
                          ELSE graphs
             /\ lastDump' = [from |-> id, to |-> toGraphId, confirmed |-> confirmed,
                             element |-> element, input |-> processedData(sourceGraph.data),
                             points |-> transformedPoints]
       /\ pc' = "handleDumpPoints"
       /\ UNCHANGED <<call, ret, zIndexCounter, colorIndex, clock, panelVars>>

\* a click on an entry of the dump dropdown of graph id: handleDumpPoints of
\* DraggableGraph.tsx, then handleDumpPoints of page.tsx with the answer
\* (confirmed) of window.confirm
HandleDumpPoints(id, toGraphId, element) ==
    LET sourceGraph == graphs[IndexOf(id)]
        targetGraph == graphs[IndexOf(toGraphId)]
        transformedPoints == DumpTransform(sourceGraph, targetGraph, element)
    IN /\ HasGraph(id) /\ HasGraph(toGraphId)
       /\ \E k \in 1..Len(OverlappingGraphs(sourceGraph)) :
             OverlappingGraphs(sourceGraph)[k].id = toGraphId
       /\ Len(targetGraph.data) + Len(sourceGraph.data) <= MaxData
       /\ \E confirmed \in BOOLEAN :
             /\ graphs' = IF confirmed
                          THEN [i \in 1..Len(graphs) |->
                                  IF graphs[i].id = toGraphId
                                  THEN [graphs[i] EXCEPT !.data =
                                           graphs[i].data \o
                                           pointsWithMetadata(transformedPoints, id, sourceGraph)]
                                  ELSE graphs[i]]
                          ELSE graphs
             /\ lastDump' = [from |-> id, to |-> toGraphId, confirmed |-> confirmed,
                             element |-> element, input |-> processedData(sourceGraph.data),
                             points |-> transformedPoints]
       /\ pc' = "handleDumpPoints"
       /\ UNCHANGED <<call, ret, zIndexCounter, colorIndex, clock, panelVars>>

\* a click on a dump dropdown entry whose graph has been removed since the
\* entry was listed: allGraphs.find (and graphs.find of page.tsx) finds no
\* target graph and the handler returns
HandleDumpPointsNotFound(id, toGraphId) ==
    /\ HasGraph(id)
    /\ ~HasGraph(toGraphId)
    /\ \E k \in 1..clock : GraphIds[k] = toGraphId
    /\ pc' = "handleDumpPoints_notFound"
    /\ lastDump' = [NoDump EXCEPT !.from = id, !.to = toGraphId]
    /\ UNCHANGED <<call, ret, graphs, zIndexCounter, colorIndex, clock, panelVars>>

Init ==
    /\ pc = "start"
    /\ call = <<>>
    /\ ret = <<>>
    /\ InitRegistryVars

LoadedIds == {graphs[i].id : i \in 1..Len(graphs)}

Next ==
    \/ \E rows \in FileChoices : HandleFileProcessed(rows)
    \/ \E id \in LoadedIds : HandleGraphClick(id)
    \/ \E id \in LoadedIds : HandleRemoveGraph(id)
    \/ \E id \in LoadedIds, toGraphId \in LoadedIds, element \in {RenderedElement} :
          HandleDumpPoints(id, toGraphId, element)
    \/ \E id \in LoadedIds, toGraphId \in {GraphIds[k] : k \in 1..clock} :
          HandleDumpPointsNotFound(id, toGraphId)

Spec == Init /\ [][Next]_vars

\* C8: every point transformPoints returns for a dump carries the input
\* point's x and y under _originalX and _originalY and the source graph's
\* colour under _originalColor, and every point a confirmed dump appends to the
\* target graph keeps these and carries _isDumped = TRUE and _sourceId = the
\* id of the source graph.
C8_ProvenanceMetadata ==
    pc = "handleDumpPoints" =>
        LET sourceGraph == graphs[IndexOf(lastDump.from)]
            targetGraph == graphs[IndexOf(lastDump.to)]
            n == Len(lastDump.input)
            added == SubSeq(targetGraph.data, Len(targetGraph.data) - n + 1,
                            Len(targetGraph.data))
        IN /\ Len(lastDump.points) = n
           /\ \A i \in 1..n :
                 /\ lastDump.points[i]._originalX = lastDump.input[i].x
                 /\ lastDump.points[i]._originalY = lastDump.input[i].y
                 /\ lastDump.points[i]._originalColor = sourceGraph.color
           /\ lastDump.confirmed =>
                 /\ Len(targetGraph.data) >= n
                 /\ \A i \in 1..n :
                       /\ added[i]._originalX = lastDump.input[i].x
                       /\ added[i]._originalY = lastDump.input[i].y
                       /\ added[i]._originalColor = sourceGraph.color
                       /\ added[i]._isDumped = TRUE
                       /\ added[i]._sourceId = lastDump.from

\* a confirmed dump that moves a point and re-dumps a point that had itself
\* been dumped from the other graph
C8_Witness ==
    /\ pc = "handleDumpPoints"
    /\ lastDump.confirmed
    /\ \E i \in 1..Len(lastDump.input) :
          /\ lastDump.points[i].x # lastDump.input[i].x
          /\ ~lastDump.input[i]._isDumped
    /\ \E i \in 1..Len(lastDump.input) :
          /\ lastDump.input[i]._isDumped
          /\ lastDump.input[i]._sourceId = lastDump.to

(***************************************************************************)
(* transformPoints on the inputs the error-handling rules are about:       *)
(* degenerate domains, NaN points, rotations outside [0,360), a rotation   *)
(* centre, and the rotation scenario of the specification                  *)
(***************************************************************************)
\* left-middle and centre of the first-quadrant domain, and points with an
\* unparsable coordinate
EdgePointChoices == {RawPoint(Num(0), Num(2500)), RawPoint(Num(2500), Num(2500)),
                     RawPoint(NaN, Num(2500)), RawPoint(Num(2500), NaN)}

\* the fixed domain, and the domains parseCSVData fits to a file whose x
\* values (y values) are all 0: xMax = xMin (yMax = yMin)
EdgeDomainChoices == {FirstQuadrantDomain, Domain(0, 0, 0, 2500), Domain(0, 2500, 0, 0)}

\* rotations as Apply Rotation and the settings panel store them
EdgeRotations == {0, 90, 360, 450, -90}

\* the rotationCenter of a graph: the {x: 0, y: 0} every graph is created
\* with, or a pivot entered in the settings panel
RotationCenterChoices == {[x |-> 0, y |-> 0], [x |-> 100, y |-> 100]}

EdgeSourceFrames(e) ==
    {[position |-> [x |-> 0, y |-> 0], size |-> ScenarioSize, rotation |-> r,
      color |-> graphColors[1], element |-> e, rotationCenter |-> c] :
        r \in EdgeRotations, c \in RotationCenterChoices}

EdgeTargetFrames(e) ==
    {[position |-> [x |-> 0, y |-> 0], size |-> ScenarioSize, rotation |-> r, element |-> e] :
        r \in {0, 360}}

InitEdge ==
    /\ pc = "transform_ready"
    /\ \E e \in {NoElement, RenderedElement}, ps \in SeqsUpTo(EdgePointChoices, MaxPoints),
          fd \in EdgeDomainChoices, td \in EdgeDomainChoices :
          \E sg \in EdgeSourceFrames(e), tg \in EdgeTargetFrames(e) :
             call = [points |-> ps, fromDomains |-> fd, toDomains |-> td,
                     sourceGraph |-> sg, targetGraph |-> tg]
    /\ ret = <<>>
    /\ InitRegistryVars

SpecEdge == InitEdge /\ [][NextTransform]_vars

\* C11: a domain with max <= min that reaches transformPoints as its source
\* or target domain is used with max replaced by min + 1 on that axis: the
\* result is the one computed with the repaired domains.
C11_DegenerateDomainRepaired ==
    LET Repaired(d) ==
            [xMin |-> d.xMin, xMax |-> IF Le(d.xMax, d.xMin) THEN Add(d.xMin, Num(1)) ELSE d.xMax,
             yMin |-> d.yMin, yMax |-> IF Le(d.yMax, d.yMin) THEN Add(d.yMin, Num(1)) ELSE d.yMax]
    IN pc = "transform_done" =>
        ret = transformPoints(call.points, Repaired(call.fromDomains), Repaired(call.toDomains),
                              call.sourceGraph, call.targetGraph)

C14_RotationNormalised ==
    (pc = "transform_done" /\ Len(call.points) > 0) =>
        /\ 0 <= sourceRotationRad(call.sourceGraph)
        /\ sourceRotationRad(call.sourceGraph) < 360
        /\ 0 <= targetRotationRad(call.targetGraph)
        /\ targetRotationRad(call.targetGraph) < 360

\* C15: for any two frames A and B the rectangle intersection test gives the
\* same answer with A as query and B as candidate as with B as query and A
\* as candidate, whatever their zIndex values: the test itself is symmetric,
\* and detectOverlaps run for A with B placed below it lists B exactly when
\* detectOverlaps run for B with A placed below it lists A.
C15_OverlapTestSymmetric ==
    LET all == call.allGraphs
        Ids(gs) == {gs[k].id : k \in 1..Len(gs)}
        Lists(a, b) == b.id \in Ids(detectOverlaps(all, a.id, a.position, a.size, b.zIndex + 1))
    IN pc = "overlap_done" =>
        \A i \in 1..Len(all), j \in 1..Len(all) :
            /\ doRectanglesOverlap(GraphRect(all[i]), GraphRect(all[j]))
                  = doRectanglesOverlap(GraphRect(all[j]), GraphRect(all[i]))
            /\ i # j => (Lists(all[i], all[j]) <=> Lists(all[j], all[i]))

\* two frames of different size and position, the upper one listing the lower
C15_Witness ==
    /\ pc = "overlap_done"
    /\ Len(call.allGraphs) = 2
    /\ call.allGraphs[1].size # call.allGraphs[2].size
    /\ call.allGraphs[1].position # call.allGraphs[2].position
    /\ Len(ret) = 1

\* C16: transformPoints rotates the source frame about the rotation centre
\* supplied for it (a pivot in canvas coordinates), and about the frame's
\* geometric centre when none is supplied (the graph still has the
\* {x: 0, y: 0} it was created with): the returned point is the one obtained
\* from the canvas position pivot + R(rotation)(unrotated position - pivot).
C16_RotationAboutSuppliedCentre ==
    LET sg == call.sourceGraph
        NotNaN(point) == ~isNaN(point.x) /\ ~isNaN(point.y)
        ValidDomain(d) == Lt(d.xMin, d.xMax) /\ Lt(d.yMin, d.yMax)
        Supplied == sg.rotationCenter # [x |-> 0, y |-> 0]
        pivotX == IF Supplied THEN Num(sg.rotationCenter.x)
                  ELSE Add(Num(sg.position.x), Half(sg.size.width))
        pivotY == IF Supplied THEN Num(sg.rotationCenter.y)
                  ELSE Add(Num(sg.position.y), Half(sg.size.height))
        Unrotated(point) == absolutePosition(point, call.fromDomains, [sg EXCEPT !.rotation = 0])
        Expected(point) ==
            [x |-> Add(pivotX, RotateX(sg.rotation, Sub(Unrotated(point).x, pivotX),
                                       Sub(Unrotated(point).y, pivotY))),
             y |-> Add(pivotY, RotateY(sg.rotation, Sub(Unrotated(point).x, pivotX),
                                       Sub(Unrotated(point).y, pivotY)))]
        New(point) == newPosition(Expected(point), call.toDomains, sg, call.targetGraph)
    IN (pc = "transform_done" /\ ValidDomain(call.fromDomains) /\ ValidDomain(call.toDomains)) =>
        \A i \in 1..Len(ret) :
            NotNaN(call.points[i]) =>
                /\ ret[i].x = Clamp(call.toDomains.xMin, call.toDomains.xMax, New(call.points[i]).x)
                /\ ret[i].y = Clamp(call.toDomains.yMin, call.toDomains.yMax, New(call.points[i]).y)

RotationScenario ==
    /\ call.points = <<RawPoint(Num(0), Num(2500))>>
    /\ call.fromDomains = FirstQuadrantDomain
    /\ call.toDomains = FirstQuadrantDomain
    /\ call.sourceGraph.rotation = 90
    /\ call.sourceGraph.rotationCenter = [x |-> 0, y |-> 0]
    /\ call.sourceGraph.element = NoElement
    /\ call.targetGraph.rotation = 0

\* C19: in the scenario transformPoints maps (0,2500) to approximately the
\* top-middle (2500,5000) of the domain: y is the top of the domain, 5000, and
\* x lies within a tenth of the domain width (500) of the middle, 2500; the
\* steps 1-8 give x = 225000/103 (about 2184.47).
C19_RotationScenario ==
    (pc = "transform_done" /\ RotationScenario) =>
        /\ Len(ret) = 1
        /\ ret[1].y = Num(5000)
        /\ Le(Num(2000), ret[1].x) /\ Le(ret[1].x, Num(3000))
        /\ ret[1].x = Norm(225000, 103)

C19_Witness ==
    /\ pc = "transform_done"
    /\ RotationScenario
    /\ Len(ret) = 1
    /\ ret[1]._originalX = Num(0) /\ ret[1]._originalY = Num(2500)

(***************************************************************************)
(* DraggableGraph.tsx: the diagnostic log request of transformPoints       *)
(***************************************************************************)
\* how the POST to /api/log can end: {success: true}, {success: false}, a
\* rejected fetch, or a response whose body is not JSON
FetchOutcomes == {"saved", "server_error", "network_error", "bad_json"}

\* variant without the try/catch: a rejected fetch or response.json() rejects
\* the promise writeDebugDataToFile returned
writeDebugDataToFile_noCatch(outcome) ==
    [request |-> outcome, rejected |-> outcome \in {"network_error", "bad_json"}]

\* writeDebugDataToFile after its awaits: every outcome ends in a console
\* message, inside the try or in the catch; the promise is fulfilled
writeDebugDataToFile(outcome) ==
    [request |-> outcome, rejected |-> FALSE]

InitLog ==
    /\ pc = "log_ready"
    /\ \E e \in {NoElement, RenderedElement}, ps \in SeqsUpTo(PointChoices, MaxPoints),
          r \in {0, 90} :
          call = [points |-> ps, fromDomains |-> FirstQuadrantDomain,
                  toDomains |-> AllQuadrantDomain,
                  sourceGraph |-> [position |-> [x |-> 130, y |-> 70], size |-> ScenarioSize,
                                   rotation |-> r, color |-> graphColors[1], element |-> e],
                  targetGraph |-> [position |-> [x |-> 100, y |-> 100], size |-> InitialSize,
                                   rotation |-> 0, element |-> e]]
    /\ ret = [points |-> <<>>, request |-> "none", rejected |-> FALSE, delivered |-> <<>>]
    /\ InitRegistryVars

\* transformPoints runs to its return: writeDebugDataToFile(debugData) is
\* called without await, so the request is in flight when the points are
\* returned
TransformPointsReturns ==
    /\ pc = "log_ready"
    /\ ret' = [ret EXCEPT
                  !.points = transformPoints(call.points, call.fromDomains, call.toDomains,
                                             call.sourceGraph, call.targetGraph),
                  !.request = "pending"]
    /\ pc' = "log_returned"
    /\ UNCHANGED <<call, registryVars>>

\* the request settles, before or after the dump went on
LogRequestSettles ==
    /\ pc \in {"log_returned", "log_dumped"}
    /\ ret.request = "pending"
    /\ \E outcome \in FetchOutcomes :
          ret' = [ret EXCEPT !.request = writeDebugDataToFile(outcome).request,
                             !.rejected = writeDebugDataToFile(outcome).rejected]
    /\ UNCHANGED <<pc, call, registryVars>>

\* handleDumpPoints goes on with onDumpPoints(id, toGraphId, transformedPoints)
OnDumpPoints ==
    /\ pc = "log_returned"
    /\ ret' = [ret EXCEPT !.delivered = ret.points]
    /\ pc' = "log_dumped"
    /\ UNCHANGED <<call, registryVars>>

NextLog == TransformPointsReturns \/ LogRequestSettles \/ OnDumpPoints

SpecLog == InitLog /\ [][NextLog]_vars

RelaidElement ==
    [present |-> TRUE, hasChart |-> TRUE, chartLeft |-> Num(60), chartTop |-> Num(62),
     chartWidth |-> Num(205), chartHeight |-> Num(149)]

\* what measureChartArea can find in an element that was passed before
Layouts(element) ==
    IF element.present THEN {RenderedElement, RelaidElement, UnrenderedElement}
    ELSE {element}

InitRepeat ==
    /\ pc = "repeat_ready"
    /\ \E e \in {NoElement, RenderedElement}, ps \in SeqsUpTo(PointChoices, MaxPoints),
          r \in {0, 90} :
          call = [points |-> ps, fromDomains |-> FirstQuadrantDomain,
                  toDomains |-> AllQuadrantDomain,
                  sourceGraph |-> [position |-> [x |-> 130, y |-> 70], size |-> ScenarioSize,
                                   rotation |-> r, color |-> graphColors[1], element |-> e],
                  targetGraph |-> [position |-> [x |-> 100, y |-> 100], size |-> InitialSize,
                                   rotation |-> 0, element |-> e]]
    /\ ret = [first |-> <<>>, other |-> <<>>, second |-> <<>>]
    /\ InitRegistryVars

FirstCall ==
    /\ pc = "repeat_ready"
    /\ ret' = [ret EXCEPT !.first = transformPoints(call.points, call.fromDomains,
                                                    call.toDomains, call.sourceGraph,
                                                    call.targetGraph)]
    /\ pc' = "repeat_first"
    /\ UNCHANGED <<call, registryVars>>

\* the page is laid out again between the calls (a graph is minimised,
\* resized by CSS, re-rendered): the arguments are the same objects, the
\* element measures differently
Relayout ==
    /\ pc = "repeat_first"
    /\ \E e \in Layouts(call.sourceGraph.element) \ {call.sourceGraph.element} :
          call' = [call EXCEPT !.sourceGraph.element = e, !.targetGraph.element = e]
    /\ pc' = "repeat_relaid"
    /\ UNCHANGED <<ret, registryVars>>

\* another transformPoints call, with the frames exchanged, runs in between
OtherCall ==
    /\ pc \in {"repeat_first", "repeat_relaid"}
    /\ ret.other = <<>>
    /\ call.points # <<>>
    /\ ret' = [ret EXCEPT !.other =
                  transformPoints(call.points, call.toDomains, call.fromDomains,
                                  [call.targetGraph EXCEPT !.rotation = 90] @@
                                      [color |-> graphColors[2]],
                                  call.sourceGraph)]
    /\ UNCHANGED <<pc, call, registryVars>>

SecondCall ==
    /\ pc \in {"repeat_first", "repeat_relaid"}
    /\ ret' = [ret EXCEPT !.second = transformPoints(call.points, call.fromDomains,
                                                     call.toDomains, call.sourceGraph,
                                                     call.targetGraph)]
    /\ pc' = "repeat_done"
    /\ UNCHANGED <<call, registryVars>>

NextRepeat == FirstCall \/ Relayout \/ OtherCall \/ SecondCall

SpecRepeat == InitRepeat /\ [][NextRepeat]_vars

\* C20: two transformPoints calls with equal points, domains and frame
\* descriptions (position, size, rotation) return equal results, whatever
\* calls run in between and whatever changed outside the arguments.
C20_EqualCallsEqualResults ==
    pc = "repeat_done" => ret.first = ret.second

(***************************************************************************)
(* page.tsx: the settings panel and the data panel                         *)
(***************************************************************************)
\* sizes applied from the settings panel: the size as loaded, and one typed in
SettingsChoices == {[size |-> InitialSize], [size |-> [width |-> 900, height |-> 700]]}

\* onToggleSettings of the graph id
OnToggleSettings(id) ==
    /\ HasGraph(id)
    /\ IF selectedGraphId = id
       THEN /\ selectedGraphId' = null
            /\ showSettings' = FALSE
            /\ UNCHANGED selectedDataGraphId
       ELSE /\ selectedGraphId' = id
            /\ showSettings' = TRUE
            /\ selectedDataGraphId' = IF selectedDataGraphId # id THEN null
                                      ELSE selectedDataGraphId
    /\ pc' = "onToggleSettings"
    /\ lastDump' = NoDump
    /\ UNCHANGED <<call, ret, graphs, zIndexCounter, colorIndex, clock>>

\* onDataPanelToggle of the graph id
OnDataPanelToggle(id) ==
    /\ HasGraph(id)
    /\ IF selectedDataGraphId = id
       THEN /\ selectedDataGraphId' = null
            /\ UNCHANGED selectedGraphId
       ELSE /\ selectedDataGraphId' = id
            /\ selectedGraphId' = IF selectedGraphId # id THEN null ELSE selectedGraphId
    /\ pc' = "onDataPanelToggle"
    /\ lastDump' = NoDump
    /\ UNCHANGED <<call, ret, graphs, zIndexCounter, colorIndex, clock, showSettings>>

\* the settings panel is rendered with its Close and Apply buttons
SettingsPanelRendered == showSettings /\ HasGraph(selectedGraphId)

\* handleSettingsClose
HandleSettingsClose ==
    /\ SettingsPanelRendered
    /\ showSettings' = FALSE
    /\ selectedGraphId' = null
    /\ pc' = "handleSettingsClose"
    /\ lastDump' = NoDump
    /\ UNCHANGED <<call, ret, graphs, zIndexCounter, colorIndex, clock, selectedDataGraphId>>

\* Apply in the settings panel: handleSettingsUpdate(settings), which calls
\* handleGraphUpdate(selectedGraphId, settings), then onClose
HandleSettingsUpdate(settings) ==
    /\ SettingsPanelRendered
    /\ graphs' = [i \in 1..Len(graphs) |->
                     IF graphs[i].id = selectedGraphId
                     THEN [graphs[i] EXCEPT !.size = settings.size]
                     ELSE graphs[i]]
    /\ showSettings' = FALSE
    /\ selectedGraphId' = null
    /\ pc' = "handleSettingsUpdate"
    /\ lastDump' = NoDump
    /\ UNCHANGED <<call, ret, zIndexCounter, colorIndex, clock, selectedDataGraphId>>

NextPanels ==
    \/ \E rows \in FileChoices : HandleFileProcessed(rows)
    \/ \E id \in LoadedIds : HandleRemoveGraph(id)
    \/ \E id \in LoadedIds : OnToggleSettings(id)
    \/ \E id \in LoadedIds : OnDataPanelToggle(id)
    \/ HandleSettingsClose
    \/ \E settings \in SettingsChoices : HandleSettingsUpdate(settings)

SpecPanels == Init /\ [][NextPanels]_vars

(***************************************************************************)
(* page.tsx: claims about the registry                                     *)
(***************************************************************************)
\* C21: a confirmed dump from S to T appends exactly the transformed points,
\* in order, to the end of T's data and leaves S's data and every other graph
\* unchanged; a declined confirmation, or a target id no longer in the
\* registry, leaves the whole registry unchanged.
C21_DumpCopiesPoints ==
    [][pc' \in {"handleDumpPoints", "handleDumpPoints_notFound"} =>
         IF pc' = "handleDumpPoints" /\ lastDump'.confirmed
         THEN LET t == IndexOf(lastDump'.to)
                  old == Len(graphs[t].data)
                  n == Len(lastDump'.points)
              IN /\ Len(graphs') = Len(graphs)
                 /\ \A i \in 1..Len(graphs) : i # t => graphs'[i] = graphs[i]
                 /\ [graphs'[t] EXCEPT !.data = graphs[t].data] = graphs[t]
                 /\ lastDump'.points =
                        DumpTransform(graphs[IndexOf(lastDump'.from)], graphs[t],
                                      lastDump'.element)
                 /\ Len(graphs'[t].data) = old + n
                 /\ SubSeq(graphs'[t].data, 1, old) = graphs[t].data
                 /\ \A k \in 1..n :
                       /\ graphs'[t].data[old + k].x = lastDump'.points[k].x
                       /\ graphs'[t].data[old + k].y = lastDump'.points[k].y
         ELSE graphs' = graphs]_vars

C21_Witness ==
    /\ pc = "handleDumpPoints"
    /\ lastDump.confirmed
    /\ Len(lastDump.points) > 0
    /\ Len(graphs) = 2
    /\ Len(graphs[IndexOf(lastDump.from)].data) > 0
    /\ Len(graphs[IndexOf(lastDump.to)].data) > Len(lastDump.points)

\* C22: in every dump the target domain passed to transformPoints equals the
\* axis domain the target graph is drawn with (the sanitised domain it
\* computes from its own data), as the source domain passed equals the domain
\* the source graph is drawn with.
C22_TargetDomainAsDrawn ==
    [][pc' = "handleDumpPoints" =>
         LET sourceGraph == graphs[IndexOf(lastDump'.from)]
             targetGraph == graphs[IndexOf(lastDump'.to)]
         IN /\ sourceDomains(sourceGraph) = sanitizedDomains(sourceGraph.data)
            /\ targetDomains(targetGraph) = sanitizedDomains(targetGraph.data)]_vars

\* C24: in every reachable state of the registry no two graphs have the same
\* zIndex, so that of any two overlapping graphs exactly one is offered the
\* other as a dump target.
C24_DistinctZIndex ==
    \A i \in 1..Len(graphs), j \in 1..Len(graphs) :
        i # j =>
            /\ graphs[i].zIndex # graphs[j].zIndex
            /\ doRectanglesOverlap(GraphRect(graphs[i]), GraphRect(graphs[j])) =>
                   ((\E k \in 1..Len(OverlappingGraphs(graphs[i])) :
                        OverlappingGraphs(graphs[i])[k].id = graphs[j].id)
                    # (\E k \in 1..Len(OverlappingGraphs(graphs[j])) :
                          OverlappingGraphs(graphs[j])[k].id = graphs[i].id))

\* C26: every point that reached a graph through one or more dumps carries
\* as _originalColor the colour of the graph into which it was first loaded,
\* also after it has been dumped again from an intermediate graph: each
\* confirmed dump gives a point loaded into the source the source's colour
\* and leaves the _originalColor of a point the source had received by a dump.
C26_OriginalColourOfFirstGraph ==
    [][(pc' = "handleDumpPoints" /\ lastDump'.confirmed) =>
         LET sourceGraph == graphs[IndexOf(lastDump'.from)]
             t == IndexOf(lastDump'.to)
             old == Len(graphs[t].data)
             input == lastDump'.input
         IN \A k \in 1..Len(input) :
               graphs'[t].data[old + k]._originalColor =
                  IF input[k]._isDumped THEN input[k]._originalColor
                  ELSE sourceGraph.color]_vars

\* C27: whenever the settings panel is shown (showSettings is true)
\* selectedGraphId is non-null, after any sequence of settings-toggle,
\* data-panel-toggle, settings-apply, settings-close and remove-graph
\* operations.
C27_ShownPanelHasGraph ==
    showSettings => selectedGraphId # null

\* C28: each of selectedGraphId and selectedDataGraphId is null or the id of a
\* graph currently in the registry; removing a graph never leaves either of
\* them pointing at the removed graph.
C28_SelectionsInRegistry ==
    /\ selectedGraphId = null \/ HasGraph(selectedGraphId)
    /\ selectedDataGraphId = null \/ HasGraph(selectedDataGraphId)

C28_Witness ==
    /\ pc = "handleRemoveGraph"
    /\ Len(graphs) = 1
    /\ selectedDataGraphId = null
    /\ selectedGraphId = graphs[1].id
    /\ showSettings

(***************************************************************************)
(* DraggableGraph.tsx: a dump between frames of different sizes            *)
(***************************************************************************)
\* sizes a graph can have: as loaded, resized by its handles
FrameSizes == {InitialSize, ScenarioSize, [width |-> 250, height |-> 200]}

\* the container element of a graph of the given size: its scatter group is
\* measured inside the margins, or the container is not mounted
ContainerOf(size) ==
    {NoElement,
     [present |-> TRUE, hasChart |-> TRUE, chartLeft |-> Num(60), chartTop |-> Num(62),
      chartWidth |-> Num(size.width - 90), chartHeight |-> Num(size.height - 102)]}

\* the plot rectangle transformPoints uses for the target frame
targetPlotRectangle(sourceGraph, targetGraph) ==
    [left |-> targetLeftOffset(sourceGraph, targetGraph),
     top |-> targetTopOffset(sourceGraph, targetGraph),
     width |-> targetInnerWidth(sourceGraph, targetGraph),
     height |-> targetInnerHeight(sourceGraph, targetGraph)]

\* the frames handleDumpPoints hands to transformPoints: both carry
\* containerRef.current, the container of the source graph
DumpFrames(sourceGraph, targetGraph, element) ==
    [source |-> [position |-> sourceGraph.position, size |-> sourceGraph.size,
                 color |-> sourceGraph.color, rotation |-> sourceGraph.rotation,
                 element |-> element],
     target |-> [position |-> targetGraph.position, size |-> targetGraph.size,
                 rotation |-> targetGraph.rotation, element |-> element]]

DumpOutcome(sourceGraph, targetGraph, element) ==
    LET f == DumpFrames(sourceGraph, targetGraph, element)
    IN [rectangle |-> targetPlotRectangle(f.source, f.target),
        points |-> DumpTransform(sourceGraph, targetGraph, element)]

InitFrames ==
    /\ pc = "frames_ready"
    /\ \E ss \in FrameSizes, ps \in SeqsUpTo(PointChoices, 1) \ {<<>>} :
       \E ts \in FrameSizes \ {ss}, e \in ContainerOf(ss) :
          call = [sourceGraph |-> [id |-> GraphIds[2], data |-> ps,
                                   position |-> [x |-> 130, y |-> 130], size |-> ss,
                                   rotation |-> 0, color |-> graphColors[2],
                                   domains |-> FirstQuadrantDomain, zIndex |-> 101],
                  targetGraph |-> [id |-> GraphIds[1], data |-> <<>>,
                                   position |-> [x |-> 100, y |-> 100], size |-> ts,
                                   rotation |-> 0, color |-> graphColors[1],
                                   domains |-> FirstQuadrantDomain, zIndex |-> 100],
                  element |-> e]
    /\ ret = [first |-> <<>>, second |-> <<>>]
    /\ InitRegistryVars

DumpFirst ==
    /\ pc = "frames_ready"
    /\ ret' = [ret EXCEPT !.first = DumpOutcome(call.sourceGraph, call.targetGraph,
                                                call.element)]
    /\ pc' = "frames_first"
    /\ UNCHANGED <<call, registryVars>>

\* the source graph is resized by a handle; its container is measured anew,
\* the target graph is left as it is
ResizeSource ==
    /\ pc = "frames_first"
    /\ \E ss \in FrameSizes \ {call.sourceGraph.size, call.targetGraph.size} :
       \E e \in ContainerOf(ss) :
          /\ e.present = call.element.present
          /\ call' = [call EXCEPT !.sourceGraph.size = ss, !.element = e]
    /\ pc' = "frames_resized"
    /\ UNCHANGED <<ret, registryVars>>

DumpSecond ==
    /\ pc = "frames_resized"
    /\ ret' = [ret EXCEPT !.second = DumpOutcome(call.sourceGraph, call.targetGraph,
                                                 call.element)]
    /\ pc' = "frames_done"
    /\ UNCHANGED <<call, registryVars>>

NextFrames == DumpFirst \/ ResizeSource \/ DumpSecond

SpecFrames == InitFrames /\ [][NextFrames]_vars

\* C23: in a dump between two frames of different sizes the target plot
\* rectangle used by transformPoints is determined by the target frame's own
\* size or measured chart area, and is unchanged when only the source frame's
\* size or measured chart area changes.
C23_TargetRectangleOwn ==
    pc = "frames_done" => ret.first.rectangle = ret.second.rectangle

(***************************************************************************)
(* DraggableGraph.tsx: a rotate drag                                       *)
(***************************************************************************)
\* mousemove events followed in one drag, and drags followed in a run
MaxMoves == 2
MaxDrags == 2

\* the angle from the rotation centre to the mouse, in degrees (Math.atan2)
MouseAngles == {0, 90, 180, -90}

\* the % of JavaScript: the result has the sign of the dividend
JsRem(a, m) == IF a >= 0 THEN a % m ELSE -((-a) % m)

\* the graph after load (rotation 0) or after Apply Rotation with 90 or 450
InitRotate ==
    /\ pc = "rotate_idle"
    /\ \E r \in {0, 90, 450} : call = [rotation |-> r, localRotation |-> r, drags |-> 0]
    /\ ret = [localRotation |-> 0, initialAngle |-> 0, moves |-> 0, shown |-> 0,
              reported |-> 0]
    /\ InitRegistryVars

\* handleRotate: mousedown on the rotate handle; the listeners it registers
\* close over the localRotation of this render
HandleRotate(initialAngle) ==
    /\ pc \in {"rotate_idle", "rotate_mouseup"}
    /\ call.drags < MaxDrags
    /\ ret' = [localRotation |-> call.localRotation, initialAngle |-> initialAngle,
               moves |-> 0, shown |-> call.localRotation, reported |-> 0]
    /\ call' = [call EXCEPT !.drags = @ + 1]
    /\ pc' = "rotate_dragging"
    /\ UNCHANGED registryVars

\* onMouseMove of the drag
OnMouseMove(newAngle) ==
    LET deltaAngle == newAngle - ret.initialAngle
        rem == JsRem(ret.localRotation + deltaAngle, 360)
        newRotation == IF rem < 0 THEN rem + 360 ELSE rem
    IN /\ pc = "rotate_dragging"
       /\ ret.moves < MaxMoves
       /\ call' = [call EXCEPT !.localRotation = newRotation]
       /\ ret' = [ret EXCEPT !.moves = @ + 1, !.shown = newRotation]
       /\ UNCHANGED <<pc, registryVars>>

\* onMouseUp of the drag: onRotationChange(localRotation) with the
\* localRotation of the closure; handleRotationUpdate stores it, and the
\* effect on [rotation] copies the prop to localRotation when it changed
OnMouseUp ==
    /\ pc = "rotate_dragging"
    /\ ret.moves > 0
    /\ ret' = [ret EXCEPT !.reported = ret.localRotation]
    /\ call' = [call EXCEPT !.rotation = ret.localRotation,
                            !.localRotation = IF ret.localRotation # call.rotation
                                              THEN ret.localRotation ELSE @]
    /\ pc' = "rotate_mouseup"
    /\ UNCHANGED registryVars

NextRotate ==
    \/ \E initialAngle \in MouseAngles : HandleRotate(initialAngle)
    \/ \E newAngle \in MouseAngles : OnMouseMove(newAngle)
    \/ OnMouseUp

SpecRotate == InitRotate /\ [][NextRotate]_vars

\* C25: when a rotate drag ends (mouseup after one or more mousemove events)
\* the rotation reported through onRotationChange equals the rotation last
\* shown during the drag, and afterwards the stored and the displayed
\* rotation are equal.
C25_DragReportsShownRotation ==
    pc = "rotate_mouseup" =>
        /\ ret.reported = ret.shown
        /\ call.rotation = call.localRotation

(***************************************************************************)
(* DraggableGraph.tsx: moving and resizing a graph by dragging             *)
(***************************************************************************)
\* drags followed in a run
MaxFrameDrags == 1

\* page.tsx: useState(50)
gridSize == 50

minWidth == 250
minHeight == 200
maxWidth == 800
maxHeight == 600

\* the title bar and the eight resize handles
Directions ==
    {"move", "top", "topRight", "bottom", "left", "right", "bottomRight", "bottomLeft",
     "topLeft"}

\* direction.includes(part): String.prototype.includes is case-sensitive, so
\* 'bottomLeft' includes neither 'left' nor 'top', 'topRight' not 'right'
includes(direction, part) ==
    CASE part = "left" -> direction = "left"
      [] part = "right" -> direction = "right"
      [] part = "top" -> direction \in {"top", "topRight", "topLeft"}
      [] part = "bottom" -> direction \in {"bottom", "bottomRight", "bottomLeft"}

Max2(a, b) == IF a >= b THEN a ELSE b

Min2(a, b) == IF a <= b THEN a ELSE b

\* Math.round(v / gridSize) for integers: the nearest integer, a half upwards
MathRoundDiv(v, g) == (2 * v + g) \div (2 * g)

\* GlobalCoordinateGrid.tsx snapToGrid
snapToGrid(x, y) ==
    [x |-> MathRoundDiv(x, gridSize) * gridSize, y |-> MathRoundDiv(y, gridSize) * gridSize]

\* mouse displacements of a mousemove from the mousedown
Deltas == {-60, 25, 300}

\* sizes a drag starts from: as loaded, and entered through the settings panel
StartSizes == {InitialSize, [width |-> 100, height |-> 100], [width |-> 900, height |-> 700]}

NoReport == [reported |-> FALSE]

InitDrag ==
    /\ pc = "drag_idle"
    /\ \E sz \in StartSizes, gc \in {[x |-> 0, y |-> 0], [x |-> 20, y |-> 20]},
          snap \in BOOLEAN :
          call = [position |-> getNextGraphPosition(<<>>), size |-> sz,
                  globalCoordinate |-> gc, snapToGrid |-> snap, drags |-> 0]
    /\ ret = [direction |-> "move", position |-> getNextGraphPosition(<<>>),
              size |-> InitialSize, onPositionChange |-> NoReport,
              onSizeChange |-> NoReport]
    /\ InitRegistryVars

\* handleDrag(e, direction): mousedown; the listeners close over the position
\* and size of this render
HandleDrag(direction) ==
    /\ pc = "drag_idle"
    /\ call.drags < MaxFrameDrags
    /\ ret' = [direction |-> direction, position |-> call.position, size |-> call.size,
               onPositionChange |-> NoReport, onSizeChange |-> NoReport]
    /\ call' = [call EXCEPT !.drags = @ + 1]
    /\ pc' = "drag_dragging"
    /\ UNCHANGED registryVars

\* the position and size onMouseMove computes for a resize
ResizeResult(direction, initial, dx, dy, globalCoordinate, snap) ==
    LET initialLeft == initial.left
        initialTop == initial.top
        initialWidth == initial.width
        initialHeight == initial.height
        w1 == IF includes(direction, "right") /\ ~includes(direction, "top")
                 /\ ~includes(direction, "bottom")
              THEN Max2(minWidth, initialWidth + dx) ELSE initialWidth
        h2 == IF includes(direction, "bottom") THEN Max2(minHeight, initialHeight + dy)
              ELSE initialHeight
        w3 == IF includes(direction, "left") THEN Max2(minWidth, initialWidth - dx) ELSE w1
        l3 == IF includes(direction, "left") THEN initialLeft + dx ELSE initialLeft
        h4 == IF includes(direction, "top") THEN Max2(minHeight, initialHeight - dy) ELSE h2
        t4 == IF includes(direction, "top") THEN initialTop + dy ELSE initialTop
        w5 == CASE direction \in {"topRight", "bottomRight"} -> Max2(minWidth, initialWidth + dx)
                [] direction \in {"bottomLeft", "topLeft"} -> Max2(minWidth, initialWidth - dx)
                [] OTHER -> w3
        h5 == CASE direction \in {"topRight", "topLeft"} -> Max2(minHeight, initialHeight - dy)
                [] direction \in {"bottomRight", "bottomLeft"} ->
                       Max2(minHeight, initialHeight + dy)
                [] OTHER -> h4
        l5 == IF direction \in {"bottomLeft", "topLeft"} THEN initialLeft + dx ELSE l3
        t5 == IF direction \in {"topRight", "topLeft"} THEN initialTop + dy ELSE t4
        newWidth == Min2(w5, maxWidth)
        newHeight == Min2(h5, maxHeight)
        l6 == IF includes(direction, "left") /\ newWidth = maxWidth
              THEN initialLeft + initialWidth - maxWidth ELSE l5
        t6 == IF includes(direction, "top") /\ newHeight = maxHeight
              THEN initialTop + initialHeight - maxHeight ELSE t5
        snapped == snapToGrid(l6 + globalCoordinate.x, t6 + globalCoordinate.y)
        doSnap == snap /\ (includes(direction, "left") \/ includes(direction, "top"))
    IN [newLeft |-> IF doSnap THEN snapped.x - globalCoordinate.x ELSE l6,
        newTop |-> IF doSnap THEN snapped.y - globalCoordinate.y ELSE t6,
        newWidth |-> newWidth, newHeight |-> newHeight]

\* onMouseMove of the drag, the mouse dx, dy away from the mousedown; the
\* registry takes what onPositionChange and onSizeChange report
OnDragMouseMove(dx, dy) ==
    LET globalCoordinate == call.globalCoordinate
        initialLeft == ret.position.x
        initialTop == ret.position.y
        snapped == snapToGrid(initialLeft + dx + globalCoordinate.x,
                              initialTop + dy + globalCoordinate.y)
        moved == IF call.snapToGrid
                 THEN [x |-> snapped.x - globalCoordinate.x,
                       y |-> snapped.y - globalCoordinate.y]
                 ELSE [x |-> initialLeft + dx, y |-> initialTop + dy]
        r == ResizeResult(ret.direction,
                          [left |-> initialLeft, top |-> initialTop,
                           width |-> ret.size.width, height |-> ret.size.height],
                          dx, dy, globalCoordinate, call.snapToGrid)
        positionChanged == r.newLeft # ret.position.x \/ r.newTop # ret.position.y
        sizeChanged == r.newWidth # ret.size.width \/ r.newHeight # ret.size.height
    IN /\ pc = "drag_dragging"
       /\ IF ret.direction = "move"
          THEN /\ ret' = [ret EXCEPT !.onPositionChange =
                                        [reported |-> TRUE, x |-> moved.x, y |-> moved.y],
                                     !.onSizeChange = NoReport]
               /\ call' = [call EXCEPT !.position = moved]
          ELSE /\ ret' = [ret EXCEPT
                             !.onPositionChange =
                                 IF positionChanged
                                 THEN [reported |-> TRUE, x |-> r.newLeft, y |-> r.newTop]
                                 ELSE NoReport,
                             !.onSizeChange =
                                 IF sizeChanged
                                 THEN [reported |-> TRUE, width |-> r.newWidth,
                                       height |-> r.newHeight]
                                 ELSE NoReport]
               /\ call' = [call EXCEPT
                              !.position = IF positionChanged
                                           THEN [x |-> r.newLeft, y |-> r.newTop] ELSE @,
                              !.size = IF sizeChanged
                                       THEN [width |-> r.newWidth, height |-> r.newHeight]
                                       ELSE @]
       /\ UNCHANGED <<pc, registryVars>>

\* onMouseUp of the drag
OnDragMouseUp ==
    /\ pc = "drag_dragging"
    /\ pc' = "drag_idle"
    /\ UNCHANGED <<call, ret, registryVars>>

NextDrag ==
    \/ \E direction \in Directions : HandleDrag(direction)
    \/ \E dx \in Deltas, dy \in Deltas : OnDragMouseMove(dx, dy)
    \/ OnDragMouseUp

SpecDrag == InitDrag /\ [][NextDrag]_vars

\* C29: with snap-to-grid enabled every position a drag reports through
\* onPositionChange, whether the drag moves the graph or resizes it from any
\* of its eight handles, has global coordinates (position plus
\* globalCoordinate) that are integer multiples of gridSize on both axes.
C29_ReportedPositionOnGrid ==
    (pc = "drag_dragging" /\ call.snapToGrid /\ ret.onPositionChange.reported) =>
        /\ (ret.onPositionChange.x + call.globalCoordinate.x) % gridSize = 0
        /\ (ret.onPositionChange.y + call.globalCoordinate.y) % gridSize = 0

\* C30: every size a handle-drag resize reports through onSizeChange satisfies
\* 250 <= width <= 800 and 200 <= height <= 600, for every handle direction
\* and every size the graph had when the drag started.
C30_ReportedSizeWithinLimits ==
    (pc = "drag_dragging" /\ ret.onSizeChange.reported) =>
        /\ minWidth <= ret.onSizeChange.width /\ ret.onSizeChange.width <= maxWidth
        /\ minHeight <= ret.onSizeChange.height /\ ret.onSizeChange.height <= maxHeight

====
